---- MODULE Spec2Model ----
(***************************************************************************)
(* Model of the authentication session layer of the product-management     *)
(* client: the AuthProvider (contexts/AuthContext), its login / logout /   *)
(* makeAuthenticatedRequest operations, the startup restoration effect,    *)
(* the browser's localStorage, and the Redux request helper of             *)
(* store/actions.ts that shares the same two storage keys; and of the      *)
(* consumers of the session: the Redux thunks of store/actions.ts, the     *)
(* ProductsDashboard handlers and LoginForm.handleSubmit.                  *)
(*                                                                         *)
(* React state updates issued by one synchronous stretch of code are       *)
(* committed together, so each stretch between two awaits is one action.   *)
(* Every network call is split in two actions: the call up to its fetch,   *)
(* and the resumption when the fetch settles.                              *)
(*                                                                         *)
(* The functions of the context value are created anew by every render of  *)
(* the AuthProvider and close over the state of that render: rendered is   *)
(* the state the functions now in the hands of the consumers closed over.  *)
(* React renders some time after a stretch has updated the state.          *)
(***************************************************************************)
EXTENDS Bags, FiniteSets, Integers, Sequences, TLC

VARIABLES token, user, isAuthenticated, storage, mounted, navigating, inflight, last, written,
          rendered, dispatched, dashboard, loginForm

vars == <<token, user, isAuthenticated, storage, mounted, navigating, inflight, last, written,
          rendered, dispatched, dashboard, loginForm>>

session == <<token, user, isAuthenticated, storage>>

\* The state of the consumers of the session: the actions dispatched to the
\* Redux store, the state of ProductsDashboard and the state of LoginForm.
view == <<dispatched, dashboard, loginForm>>

(***************************************************************************)
(* JavaScript values.  Every value carries its type tag; strings carry     *)
(* their text, or (for a text produced by JSON.stringify) the JSON value   *)
(* the text denotes; objects carry a function from property names to       *)
(* values.                                                                 *)
(***************************************************************************)
Undefined == [t |-> "undefined"]

Null == [t |-> "null"]

Str(s) == [t |-> "string", s |-> s]

JsonText(v) == [t |-> "string", json |-> v]

Obj(f) == [t |-> "object", f |-> f]

NoProps == [k \in {} |-> Undefined]

\* JavaScript truthiness: null, undefined and the empty string are falsy.
Truthy(v) == \/ v.t = "object"
             \/ (v.t = "string" /\ v # Str(""))

\* a || b
Or(a, b) == IF Truthy(a) THEN a ELSE b

\* o.k is a TypeError when o is null or undefined.
CanRead(o) == o.t \notin {"null", "undefined"}

\* o.k for a readable o: a missing property, or a property of a string, is undefined.
Get(o, k) == IF o.t = "object" /\ k \in DOMAIN o.f THEN o.f[k] ELSE Undefined

\* JSON.stringify of an object leaves out the properties whose value is undefined.
JSONstringify(v) ==
    IF v.t = "object"
    THEN JsonText(Obj([k \in {p \in DOMAIN v.f : v.f[p] # Undefined} |-> v.f[k]]))
    ELSE JsonText(v)

\* JSON.parse throws a SyntaxError on a text that is not JSON.
JSONparses(text) == text.t = "string" /\ "json" \in DOMAIN text

JSONparse(text) == text.json

(***************************************************************************)
(* localStorage: a function from the keys that are present to their text.  *)
(***************************************************************************)
StorageKeys == {"jwt_token", "user"}

getItem(k) == IF k \in DOMAIN storage THEN storage[k] ELSE Null

setItem(st, k, text) == [x \in (DOMAIN st) \cup {k} |-> IF x = k THEN text ELSE st[x]]

removeItem(st, k) == [x \in (DOMAIN st) \ {k} |-> st[x]]

(***************************************************************************)
(* Bounds of the model.                                                    *)
(***************************************************************************)
MaxInFlight == 2

\* The contents localStorage can hold when the page loads: each key absent,
\* empty, or holding some text; the user text may be valid JSON or not.
StoredUser == Obj([_id |-> Str("u1"), name |-> Str("a@b.com"), email |-> Str("a@b.com")])

InitialTokenTexts == {Str(""), Str("t1")}

InitialUserTexts == {Str(""), Str("{bad"), JsonText(Null), JsonText(StoredUser)}

InitialStorages ==
    { [k \in ks |-> IF k = "jwt_token" THEN tt ELSE ut] :
        ks \in SUBSET StorageKeys, tt \in InitialTokenTexts, ut \in InitialUserTexts }

NotWritten == [by |-> "nobody"]

\* What the functions and values handed out by one render close over.
Closure(tok, auth) == [token |-> tok, isAuthenticated |-> auth]

\* useState initial values of ProductsDashboard and of LoginForm.
DashboardInitial == [products |-> <<>>, loading |-> FALSE, isSubmitting |-> FALSE]

LoginFormInitial == [isSubmitting |-> FALSE]

(***************************************************************************)
(* Construction: the three useState initial values; nothing in flight.     *)
(***************************************************************************)
Init ==
    /\ token = Null
    /\ user = Null
    /\ isAuthenticated = FALSE
    /\ storage \in InitialStorages
    /\ mounted = FALSE
    /\ navigating = FALSE
    /\ inflight = EmptyBag
    /\ last = [op |-> "construct"]
    /\ written = NotWritten
    /\ rendered = Closure(Null, FALSE)
    /\ dispatched = <<>>
    /\ dashboard = DashboardInitial
    /\ loginForm = LoginFormInitial

(***************************************************************************)
(* The restoration effect, run once after the first render.                *)
(* setToken(savedToken) is already queued when JSON.parse throws, so the   *)
(* catch branch removes the two keys but the token update is committed.    *)
(***************************************************************************)
\* Variant: the saved text is stored without being parsed.
restoredUser_unparsed(savedUser) == savedUser

\* setUser(JSON.parse(savedUser))
restoredUser(savedUser) == JSONparse(savedUser)

restoreEffect ==
    /\ ~mounted
    /\ mounted' = TRUE
    /\ LET savedToken == getItem("jwt_token")
           savedUser == getItem("user")
       IN  IF Truthy(savedToken) /\ Truthy(savedUser)
           THEN IF JSONparses(savedUser)
                THEN /\ token' = savedToken
                     /\ user' = restoredUser(savedUser)
                     /\ isAuthenticated' = TRUE
                     /\ UNCHANGED <<storage, written>>
                     /\ last' = [op |-> "restore", path |-> "restored"]
                ELSE /\ token' = savedToken
                     /\ storage' = removeItem(removeItem(storage, "jwt_token"), "user")
                     /\ written' = NotWritten
                     /\ UNCHANGED <<user, isAuthenticated>>
                     /\ last' = [op |-> "restore", path |-> "parse-failed"]
           ELSE /\ UNCHANGED <<token, user, isAuthenticated, storage, written>>
                /\ last' = [op |-> "restore", path |-> "nothing-saved"]
    /\ UNCHANGED <<navigating, inflight, rendered, view>>

(***************************************************************************)
(* The remote API as the client sees it: a fetch either rejects (transport *)
(* failure) or resolves to a response with a status and a body text.       *)
(***************************************************************************)
Statuses == {200, 201, 400, 401}

ok(status) == status >= 200 /\ status <= 299

TransportFailure == [outcome |-> "rejected"]

Response(status, body) == [outcome |-> "response", status |-> status, body |-> body]

\* The user records a login response can carry.
UserFieldValues ==
    [_id |-> "u1", id |-> "u2", fullName |-> "Ann Lee", name |-> "ann", email |-> "a@b.com"]

UserInfo(ks) == [k \in ks |-> Str(UserFieldValues[k])]

\* Where the body carries the token: under no name, as an empty string, or
\* under one of the three names.
TokenParts ==
    { NoProps,
      "token" :> Str(""),
      "token" :> Str("t1"),
      ("token" :> Str("")) @@ ("accessToken" :> Str("t2")),
      "jwt" :> Str("t2") }

\* Where the body carries the user: nowhere, nested under user, nested under
\* data (with a null user), or as top-level properties.
UserParts ==
    { NoProps,
      "user" :> Obj(UserInfo({"_id", "email"})),
      ("user" :> Null) @@ ("data" :> Obj(UserInfo({"id", "name", "email"}))),
      UserInfo({"_id", "id", "fullName", "name", "email"}) }

LoginBodies ==
    { JsonText(Obj(tp @@ up)) : tp \in TokenParts, up \in UserParts }
    \cup { JsonText(Null), Str("<html>") }

\* What a non-2xx answer can carry: an error message, a text that is not
\* JSON, or (from a misbehaving server) a complete login body.
ErrorBodies ==
    { JsonText(Obj("error" :> Str("Invalid credentials"))),
      Str("<html>"),
      JsonText(Obj(("token" :> Str("t2")) @@ ("user" :> Obj(UserInfo({"_id", "email"}))))) }

LoginOutcomes ==
    {TransportFailure}
    \cup { Response(st, b) : st \in {x \in Statuses : ok(x)}, b \in LoginBodies }
    \cup { Response(st, b) : st \in {x \in Statuses : ~ok(x)}, b \in ErrorBodies }

Returned(v) == [kind |-> "returned", value |-> v]

Raised == [kind |-> "raised"]

InFlight(call) == BagCardinality(inflight) < MaxInFlight /\ inflight' = inflight (+) SetToBag({call})

Settled(call) == BagIn(call, inflight) /\ inflight' = inflight (-) SetToBag({call})

(***************************************************************************)
(* login: the call up to its fetch, and the resumption.                    *)
(***************************************************************************)
LoginCall == [op |-> "login"]

login ==
    /\ mounted
    /\ InFlight(LoginCall)
    /\ last' = [op |-> "login-call"]
    /\ UNCHANGED <<token, user, isAuthenticated, storage, mounted, navigating, written, rendered, view>>

\* const token = data.token || data.accessToken || data.jwt
loginToken(data) == Or(Or(Get(data, "token"), Get(data, "accessToken")), Get(data, "jwt"))

\* const userInfo = data.user || data.data || data
loginUserInfo(data) == Or(Or(Get(data, "user"), Get(data, "data")), data)

\* Variant: name is preferred over fullName for the display name.
loginUserData_nameFirst(userInfo) ==
    Obj([_id      |-> Or(Get(userInfo, "_id"), Get(userInfo, "id")),
         name     |-> Or(Or(Get(userInfo, "name"), Get(userInfo, "fullName")), Get(userInfo, "email")),
         email    |-> Get(userInfo, "email"),
         fullName |-> Or(Get(userInfo, "fullName"), Get(userInfo, "name"))])

loginUserData(userInfo) ==
    Obj([_id      |-> Or(Get(userInfo, "_id"), Get(userInfo, "id")),
         name     |-> Or(Or(Get(userInfo, "fullName"), Get(userInfo, "name")), Get(userInfo, "email")),
         email    |-> Get(userInfo, "email"),
         fullName |-> Or(Get(userInfo, "fullName"), Get(userInfo, "name"))])

\* Variant: the status of the response is not looked at.
loginSucceeds_anyStatus(r) ==
    /\ r.outcome = "response"
    /\ JSONparses(r.body)
    /\ CanRead(JSONparse(r.body))
    /\ Truthy(loginToken(JSONparse(r.body)))
    /\ Truthy(loginUserInfo(JSONparse(r.body)))

\* The paths of login that end in "return false" without touching the session:
\* the catch block (fetch rejected, response.json() rejected, property read of
\* null), the non-ok branch, and the missing-token-or-user branch.
loginSucceeds(r) ==
    /\ r.outcome = "response"
    /\ JSONparses(r.body)
    /\ ok(r.status)
    /\ CanRead(JSONparse(r.body))
    /\ Truthy(loginToken(JSONparse(r.body)))
    /\ Truthy(loginUserInfo(JSONparse(r.body)))

\* Variant: only the token is saved.
loginPersist_tokenOnly(st, tok, userData) == setItem(st, "jwt_token", tok)

\* localStorage.setItem('jwt_token', token); localStorage.setItem('user', JSON.stringify(userData))
loginPersist(st, tok, userData) ==
    setItem(setItem(st, "jwt_token", tok), "user", JSONstringify(userData))

\* What login does to the session once its fetch has settled with r.
loginSettled(r) ==
    IF loginSucceeds(r)
    THEN LET data == JSONparse(r.body)
             tok == loginToken(data)
             userData == loginUserData(loginUserInfo(data))
         IN  /\ token' = tok
             /\ user' = userData
             /\ isAuthenticated' = TRUE
             /\ storage' = loginPersist(storage, tok, userData)
             /\ written' = [by |-> "login", token |-> tok, user |-> userData]
    ELSE UNCHANGED <<token, user, isAuthenticated, storage, written>>

loginResume ==
    /\ mounted
    /\ Settled(LoginCall)
    /\ \E r \in LoginOutcomes :
        /\ loginSettled(r)
        /\ last' = [op |-> "login-resume", response |-> r,
                     completion |-> Returned(loginSucceeds(r))]
    /\ UNCHANGED <<mounted, navigating, rendered, view>>

(***************************************************************************)
(* logout: the body of the function, and the view's call of it.            *)
(***************************************************************************)
\* Variant: the user record is left in memory.
logout_keepsUser ==
    /\ token' = Null
    /\ user' = user
    /\ isAuthenticated' = FALSE
    /\ storage' = removeItem(removeItem(storage, "jwt_token"), "user")
    /\ written' = NotWritten

\* Variant: setIsAuthenticated(a => !a) in place of setIsAuthenticated(false).
logout_toggles ==
    /\ token' = Null
    /\ user' = Null
    /\ isAuthenticated' = ~isAuthenticated
    /\ storage' = removeItem(removeItem(storage, "jwt_token"), "user")
    /\ written' = NotWritten

\* Variant: only the token key is removed.
logout_keepsUserKey ==
    /\ token' = Null
    /\ user' = Null
    /\ isAuthenticated' = FALSE
    /\ storage' = removeItem(storage, "jwt_token")
    /\ written' = NotWritten

logout ==
    /\ token' = Null
    /\ user' = Null
    /\ isAuthenticated' = FALSE
    /\ storage' = removeItem(removeItem(storage, "jwt_token"), "user")
    /\ written' = NotWritten

handleLogout ==
    /\ mounted
    /\ logout
    /\ last' = [op |-> "logout", was |-> isAuthenticated, again |-> (last.op = "logout")]
    /\ UNCHANGED <<mounted, navigating, inflight, rendered, view>>

(***************************************************************************)
(* makeAuthenticatedRequest of the AuthProvider.                           *)
(***************************************************************************)
NoHeaders == [k \in {} |-> ""]

\* The headers a caller passes in options.headers.
CallerHeaders ==
    { NoHeaders,
      ("X-Custom" :> "1") @@ ("Content-Type" :> "text/plain") @@ ("Authorization" :> "Bearer mine") }

\* `Bearer ${token}`
Bearer(tok) == "Bearer " \o tok.s

\* Variant: the caller's headers are spread after the Authorization header.
requestHeaders_callerLast(tok, optionsHeaders) ==
    LET headers == IF Truthy(tok)
                   THEN ("Authorization" :> Bearer(tok)) @@ ("Content-Type" :> "application/json")
                   ELSE ("Content-Type" :> "application/json")
    IN  optionsHeaders @@ headers

\* { 'Content-Type': 'application/json', ...options.headers }, then
\* headers['Authorization'] is assigned when the token is truthy.
requestHeaders(tok, optionsHeaders) ==
    LET headers == optionsHeaders @@ ("Content-Type" :> "application/json")
    IN  IF Truthy(tok)
        THEN ("Authorization" :> Bearer(tok)) @@ headers
        ELSE headers

\* A suspended call: the headers it was sent with, and what its caller's
\* render closed over (the caller resumes in that closure).
RequestCall(headers, closure) == [op |-> "request", headers |-> headers, closure |-> closure]

RequestOutcomes == {TransportFailure} \cup { [outcome |-> "response", status |-> st] : st \in Statuses }

makeAuthenticatedRequest ==
    /\ mounted
    /\ \E optionsHeaders \in CallerHeaders :
        LET call == RequestCall(requestHeaders(rendered.token, optionsHeaders), rendered)
        IN  /\ InFlight(call)
            /\ last' = [op |-> "request-call", call |-> call, options |-> optionsHeaders]
    /\ UNCHANGED <<token, user, isAuthenticated, storage, mounted, navigating, written, rendered, view>>

\* Variants of the 401 test: a test for 400 instead, and a test for any client or server error.
unauthorized_400(r) == r.status = 400

unauthorized_anyError(r) == r.status >= 400

\* response.status === 401
unauthorized(r) == r.status = 401

\* Variant: the rejection of fetch is caught and a value is returned.
requestCompletion_swallowed(r) == Returned(r)

\* const response = await fetch(...) outside any try block: a rejection
\* of fetch rejects the promise of makeAuthenticatedRequest; otherwise
\* "return response".
requestCompletion(r) == IF r.outcome = "rejected" THEN Raised ELSE Returned(r)

\* What makeAuthenticatedRequest does to the session once its fetch has
\* settled with r: if (response.status === 401) logout().
requestSettled(r) ==
    IF r.outcome # "rejected" /\ unauthorized(r)
    THEN logout
    ELSE UNCHANGED <<token, user, isAuthenticated, storage, written>>

makeAuthenticatedRequestResume ==
    /\ mounted
    /\ \E call \in BagToSet(inflight), r \in RequestOutcomes :
        /\ call.op = "request"
        /\ Settled(call)
        /\ requestSettled(r)
        /\ last' = [op |-> "request-resume", call |-> call, response |-> r,
                     completion |-> requestCompletion(r), was |-> isAuthenticated,
                     again |-> ( /\ last.op = "request-resume"
                                 /\ last.response.outcome = "response"
                                 /\ last.response.status = 401 )]
    /\ UNCHANGED <<mounted, navigating, rendered, view>>

(***************************************************************************)
(* The request helper of store/actions.ts: it reads the token from         *)
(* localStorage, and on 401 removes the two keys and redirects to /login.  *)
(***************************************************************************)
getAuthHeaders ==
    LET tok == getItem("jwt_token")
    IN  IF Truthy(tok)
        THEN ("Content-Type" :> "application/json") @@ ("Authorization" :> Bearer(tok))
        ELSE ("Content-Type" :> "application/json")

ReduxCall(headers) == [op |-> "redux-request", headers |-> headers]

reduxMakeAuthenticatedRequest ==
    /\ mounted
    /\ \E optionsHeaders \in CallerHeaders :
        LET call == ReduxCall(optionsHeaders @@ getAuthHeaders)
        IN  /\ InFlight(call)
            /\ last' = [op |-> "redux-call", call |-> call, options |-> optionsHeaders]
    /\ UNCHANGED <<token, user, isAuthenticated, storage, mounted, navigating, written, rendered, view>>

\* response.status === 401
reduxUnauthorized(r) == r.status = 401

\* What the helper does once its fetch has settled with r: on 401 it removes
\* the two keys and assigns window.location.href = '/login'.
reduxSettled(r) ==
    IF r.outcome # "rejected" /\ reduxUnauthorized(r)
    THEN /\ storage' = removeItem(removeItem(storage, "jwt_token"), "user")
         /\ written' = NotWritten
         /\ navigating' = TRUE
    ELSE UNCHANGED <<storage, written, navigating>>

reduxMakeAuthenticatedRequestResume ==
    /\ mounted
    /\ \E call \in BagToSet(inflight), r \in RequestOutcomes :
        /\ call.op = "redux-request"
        /\ Settled(call)
        /\ reduxSettled(r)
        /\ last' = [op |-> "redux-resume", call |-> call, response |-> r,
                     completion |-> requestCompletion(r)]
    /\ UNCHANGED <<token, user, isAuthenticated, mounted, rendered, view>>

(***************************************************************************)
(* A page load (a reload by the user, or the redirect to /login): the      *)
(* document is replaced, the AuthProvider is constructed anew and the      *)
(* calls in flight are abandoned; localStorage survives.                   *)
(***************************************************************************)
pageLoad ==
    /\ mounted
    /\ token' = Null
    /\ user' = Null
    /\ isAuthenticated' = FALSE
    /\ mounted' = FALSE
    /\ navigating' = FALSE
    /\ inflight' = EmptyBag
    /\ last' = [op |-> "construct"]
    /\ rendered' = Closure(Null, FALSE)
    /\ dispatched' = <<>>
    /\ dashboard' = DashboardInitial
    /\ loginForm' = LoginFormInitial
    /\ UNCHANGED <<storage, written>>

(***************************************************************************)
(* A render of the AuthProvider after a state update: the context value    *)
(* now carries functions that close over the current state.                *)
(***************************************************************************)
render ==
    /\ mounted
    /\ rendered # Closure(token, isAuthenticated)
    /\ rendered' = Closure(token, isAuthenticated)
    /\ last' = [op |-> "render"]
    /\ UNCHANGED <<token, user, isAuthenticated, storage, mounted, navigating, inflight, written, view>>

Next ==
    \/ restoreEffect
    \/ login
    \/ loginResume
    \/ handleLogout
    \/ makeAuthenticatedRequest
    \/ makeAuthenticatedRequestResume
    \/ reduxMakeAuthenticatedRequest
    \/ reduxMakeAuthenticatedRequestResume
    \/ pageLoad
    \/ render

Spec == Init /\ [][Next]_vars

(***************************************************************************)
(* URL resolution of the two request helpers.  A URL is the sequence of    *)
(* its characters.  The inputs are drawn from the texts made of up to      *)
(* MaxUrlParts parts, and each helper's first statement is applied to one. *)
(***************************************************************************)
MaxUrlParts == 3

Slash == <<"/">>

Http == <<"h", "t", "t", "p">>

UrlParts == { Slash, Http, <<"s">>, <<":", "/", "/">>, <<"x">>,
              <<"p", "r", "o", "d", "u", "c", "t", "s">> }

RECURSIVE Flatten(_)
Flatten(parts) == IF parts = <<>> THEN <<>> ELSE Head(parts) \o Flatten(Tail(parts))

Urls == { Flatten(parts) : parts \in UNION { [1..n -> UrlParts] : n \in 0..MaxUrlParts } }

\* 'http://localhost:5001/api', the development default of getApiBaseUrl.
API_BASE_URL ==
    <<"h", "t", "t", "p", ":", "/", "/", "l", "o", "c", "a", "l", "h", "o", "s", "t",
      ":", "5", "0", "0", "1", "/", "a", "p", "i">>

\* url.startsWith(prefix)
startsWith(url, prefix) ==
    Len(url) >= Len(prefix) /\ SubSeq(url, 1, Len(prefix)) = prefix

\* url.slice(n)
slice(url, n) == SubSeq(url, n + 1, Len(url))

\* url.startsWith('http') ? url : `${API_BASE_URL}${url.startsWith('/') ? url.slice(4) : `/${url}`}`
fullUrl(url) ==
    IF startsWith(url, Http)
    THEN url
    ELSE API_BASE_URL \o (IF startsWith(url, Slash) THEN slice(url, 4) ELSE Slash \o url)

\* url.startsWith('http') ? url : `${API_BASE_URL}${url.startsWith('/') ? url : `/${url}`}`
reduxFullUrl(url) ==
    IF startsWith(url, Http)
    THEN url
    ELSE API_BASE_URL \o (IF startsWith(url, Slash) THEN url ELSE Slash \o url)

InitUrl ==
    /\ token = Null
    /\ user = Null
    /\ isAuthenticated = FALSE
    /\ storage = [k \in {} |-> Null]
    /\ mounted = TRUE
    /\ navigating = FALSE
    /\ inflight = EmptyBag
    /\ last \in { [op |-> "url", url |-> u] : u \in Urls }
    /\ written = NotWritten
    /\ rendered = Closure(Null, FALSE)
    /\ dispatched = <<>>
    /\ dashboard = DashboardInitial
    /\ loginForm = LoginFormInitial

makeAuthenticatedRequestUrl ==
    /\ last.op = "url"
    /\ last' = [op |-> "url-resolved", helper |-> "AuthProvider", url |-> last.url,
                 fullUrl |-> fullUrl(last.url)]
    /\ UNCHANGED <<token, user, isAuthenticated, storage, mounted, navigating, inflight,
                   written, rendered, view>>

reduxMakeAuthenticatedRequestUrl ==
    /\ last.op = "url"
    /\ last' = [op |-> "url-resolved", helper |-> "redux", url |-> last.url,
                 fullUrl |-> reduxFullUrl(last.url)]
    /\ UNCHANGED <<token, user, isAuthenticated, storage, mounted, navigating, inflight,
                   written, rendered, view>>

NextUrl ==
    \/ makeAuthenticatedRequestUrl
    \/ reduxMakeAuthenticatedRequestUrl

SpecUrl == InitUrl /\ [][NextUrl]_vars

(***************************************************************************)
(* The page at rest after its restoration effect: with nothing saved, or   *)
(* with the pair of an earlier login restored.                             *)
(***************************************************************************)
SavedPair == ("jwt_token" :> Str("t1")) @@ ("user" :> JSONstringify(StoredUser))

AtRest(restored) ==
    /\ token = (IF restored THEN Str("t1") ELSE Null)
    /\ user = (IF restored THEN StoredUser ELSE Null)
    /\ isAuthenticated = restored
    /\ storage = (IF restored THEN SavedPair ELSE [k \in {} |-> Null])
    /\ mounted = TRUE
    /\ navigating = FALSE
    /\ inflight = EmptyBag
    /\ last = [op |-> "restore", path |-> IF restored THEN "restored" ELSE "nothing-saved"]
    /\ written = NotWritten
    /\ rendered = Closure(token, isAuthenticated)
    /\ dispatched = <<>>
    /\ dashboard = DashboardInitial
    /\ loginForm = LoginFormInitial

(***************************************************************************)
(* The Redux thunks of store/actions.ts.  Each dispatches its REQUEST      *)
(* action, awaits the request helper and response.json(), and dispatches   *)
(* SUCCESS or FAILURE; dispatched is the sequence of the action types the  *)
(* store has received.                                                     *)
(***************************************************************************)
MaxDispatched == 4

Thunks == {"fetchProducts", "createProduct", "updateProduct", "deleteProduct"}

ActionPrefix ==
    [fetchProducts |-> "READ_PRODUCTS", createProduct |-> "CREATE_PRODUCT",
     updateProduct |-> "UPDATE_PRODUCT", deleteProduct |-> "DELETE_PRODUCT"]

ActionType(thunk, phase) == ActionPrefix[thunk] \o "_" \o phase

\* What the products API answers: a body with the product(s), an error
\* message, the JSON text null, or a text that is not JSON.
ThunkBodies ==
    { JsonText(Obj(("product" :> Obj("id" :> Str("p1"))) @@ ("products" :> Obj("0" :> Obj("id" :> Str("p1")))))),
      JsonText(Obj("error" :> Str("Not found"))),
      JsonText(Null),
      Str("<html>") }

ThunkOutcomes ==
    {TransportFailure} \cup { Response(st, b) : st \in Statuses, b \in ThunkBodies }

ThunkCall(thunk, headers) == [op |-> "thunk", thunk |-> thunk, headers |-> headers]

\* dispatch(xRequest()) and the call of the helper up to its fetch; the
\* thunks pass no headers of their own.
thunkCall(thunk) ==
    /\ mounted
    /\ Len(dispatched) + BagCardinality(inflight) + 2 <= MaxDispatched
    /\ dispatched' = Append(dispatched, ActionType(thunk, "REQUEST"))
    /\ InFlight(ThunkCall(thunk, getAuthHeaders))
    /\ last' = [op |-> "thunk-call", thunk |-> thunk]
    /\ UNCHANGED <<token, user, isAuthenticated, storage, mounted, navigating, written, rendered,
                   dashboard, loginForm>>

\* The path of a thunk to its SUCCESS dispatch: the fetch resolved, the body
\* parsed, response.ok, and the property read of the success branch
\* (data.products, data.product; deleteProduct reads none) did not throw.
thunkSucceeds(thunk, r) ==
    /\ r.outcome = "response"
    /\ JSONparses(r.body)
    /\ ok(r.status)
    /\ (thunk = "deleteProduct" \/ CanRead(JSONparse(r.body)))

thunkResume(thunk) ==
    /\ mounted
    /\ \E call \in BagToSet(inflight), r \in ThunkOutcomes :
        /\ call.op = "thunk"
        /\ call.thunk = thunk
        /\ Settled(call)
        /\ reduxSettled(r)
        /\ dispatched' = Append(dispatched,
                                 ActionType(thunk, IF thunkSucceeds(thunk, r) THEN "SUCCESS" ELSE "FAILURE"))
        /\ last' = [op |-> "thunk-resume", thunk |-> thunk, response |-> r]
    /\ UNCHANGED <<token, user, isAuthenticated, mounted, rendered, dashboard, loginForm>>

InitThunk == \E restored \in BOOLEAN : AtRest(restored)

NextThunk ==
    \/ \E thunk \in Thunks : thunkCall(thunk)
    \/ \E thunk \in Thunks : thunkResume(thunk)

SpecThunk == InitThunk /\ [][NextThunk]_vars

(***************************************************************************)
(* The views: LoginForm.handleSubmit and the four handlers of              *)
(* ProductsDashboard, which call login and makeAuthenticatedRequest of the *)
(* AuthProvider.  dashboard.products is the array held by useState.        *)
(***************************************************************************)
MaxProducts == 2

\* A JavaScript array.
Arr(items) == [t |-> "object", items |-> items]

ProductIds == {"p1", "p2"}

Product(id, title) == Obj(("id" :> Str(id)) @@ ("title" :> Str(title)))

\* The products the API returns: two versions of p1, and p2.
ProductValues == { Product("p1", "a"), Product("p1", "b"), Product("p2", "a") }

DashboardStatuses == {200, 400, 401}

\* The bodies the products API answers to each handler on success.
OkBodies(handler) ==
    CASE handler = "fetchProducts" ->
           { JsonText(Obj("products" :> Arr(<<Product("p1", "a")>>))), JsonText(Obj(NoProps)) }
      [] handler \in {"handleCreateProduct", "handleEditProduct"} ->
           { JsonText(Obj("product" :> p)) : p \in ProductValues }
      [] handler = "handleDeleteProduct" ->
           { JsonText(Obj("message" :> Str("Product deleted"))) }

\* Any answer may also carry an error message, the JSON text null or a text
\* that is not JSON, and a non-2xx answer may carry a success body.
DashboardOutcomes(handler) ==
    {TransportFailure}
    \cup { Response(st, b) : st \in {x \in DashboardStatuses : ok(x)},
                             b \in OkBodies(handler) \cup {JsonText(Null), Str("<html>")} }
    \cup { Response(st, b) : st \in {x \in DashboardStatuses : ~ok(x)},
                             b \in OkBodies(handler)
                                   \cup {JsonText(Obj("error" :> Str("Not found"))), JsonText(Null), Str("<html>")} }

\* A suspended handler: the request it sent through makeAuthenticatedRequest
\* of its render, and the id it closed over (editingProduct.id, productId).
DashboardCall(handler, id) ==
    [op |-> "dashboard", handler |-> handler, id |-> id,
     headers |-> requestHeaders(rendered.token, NoHeaders), closure |-> rendered]

\* The handler reaches its if (response.ok) test and takes the ok branch
\* without throwing: the fetch resolved, response.json() resolved, and the
\* property read of the branch is not one of null.
okBranch(r) ==
    /\ r.outcome = "response"
    /\ JSONparses(r.body)
    /\ ok(r.status)

\* setProducts(data.products || [])
fetchedProducts(prev, data) == Or(Get(data, "products"), Arr(<<>>)).items

\* setProducts(prev => [...prev, data.product])
createdProducts(prev, data) == Append(prev, Get(data, "product"))

\* Variant: every product is replaced by the returned one.
editedProducts_all(prev, id, data) == [i \in DOMAIN prev |-> Get(data, "product")]

\* setProducts(prev => prev.map(p => p.id === editingProduct.id ? data.product : p))
editedProducts(prev, id, data) ==
    [i \in DOMAIN prev |-> IF Get(prev[i], "id") = id THEN Get(data, "product") ELSE prev[i]]

\* setProducts(prev => prev.filter(p => p.id !== productId))
deletedProducts(prev, id) == SelectSeq(prev, LAMBDA p : Get(p, "id") # id)

\* Variant: the flag is lowered at the end of the try block, not in finally.
busyAfter_endOfTry(r) == r.outcome = "rejected" \/ ~JSONparses(r.body) \/ ~CanRead(JSONparse(r.body))

\* finally { setLoading(false) } / finally { setIsSubmitting(false) }
busyAfter(r) == FALSE

fetchProducts ==
    /\ mounted
    /\ rendered.isAuthenticated
    /\ dashboard' = [dashboard EXCEPT !.loading = TRUE]
    /\ InFlight(DashboardCall("fetchProducts", Undefined))
    /\ last' = [op |-> "dashboard-call", handler |-> "fetchProducts"]
    /\ UNCHANGED <<token, user, isAuthenticated, storage, mounted, navigating, written, rendered,
                   dispatched, loginForm>>

fetchProductsResume ==
    /\ mounted
    /\ \E call \in BagToSet(inflight), r \in DashboardOutcomes("fetchProducts") :
        /\ call.op = "dashboard"
        /\ call.handler = "fetchProducts"
        /\ Settled(call)
        /\ requestSettled(r)
        /\ dashboard' =
             [dashboard EXCEPT
                !.products = IF okBranch(r) /\ CanRead(JSONparse(r.body))
                             THEN fetchedProducts(@, JSONparse(r.body))
                             ELSE @,
                !.loading = busyAfter(r)]
        /\ last' = [op |-> "dashboard-resume", handler |-> call.handler, id |-> call.id,
                     response |-> r]
    /\ UNCHANGED <<mounted, navigating, rendered, dispatched, loginForm>>

handleCreateProduct ==
    /\ mounted
    /\ rendered.isAuthenticated
    /\ Len(dashboard.products) + BagCardinality(inflight) < MaxProducts
    /\ dashboard' = [dashboard EXCEPT !.isSubmitting = TRUE]
    /\ InFlight(DashboardCall("handleCreateProduct", Undefined))
    /\ last' = [op |-> "dashboard-call", handler |-> "handleCreateProduct"]
    /\ UNCHANGED <<token, user, isAuthenticated, storage, mounted, navigating, written, rendered,
                   dispatched, loginForm>>

handleCreateProductResume ==
    /\ mounted
    /\ \E call \in BagToSet(inflight), r \in DashboardOutcomes("handleCreateProduct") :
        /\ call.op = "dashboard"
        /\ call.handler = "handleCreateProduct"
        /\ Settled(call)
        /\ requestSettled(r)
        /\ dashboard' =
             [dashboard EXCEPT
                !.products = IF okBranch(r) /\ CanRead(JSONparse(r.body))
                             THEN createdProducts(@, JSONparse(r.body))
                             ELSE @,
                !.isSubmitting = busyAfter(r)]
        /\ last' = [op |-> "dashboard-resume", handler |-> call.handler, id |-> call.id,
                     response |-> r]
    /\ UNCHANGED <<mounted, navigating, rendered, dispatched, loginForm>>

\* The handler returns at once without an editingProduct; with one, it
\* closes over its id.
handleEditProduct ==
    /\ mounted
    /\ rendered.isAuthenticated
    /\ \E id \in ProductIds :
        /\ InFlight(DashboardCall("handleEditProduct", Str(id)))
        /\ last' = [op |-> "dashboard-call", handler |-> "handleEditProduct"]
    /\ dashboard' = [dashboard EXCEPT !.isSubmitting = TRUE]
    /\ UNCHANGED <<token, user, isAuthenticated, storage, mounted, navigating, written, rendered,
                   dispatched, loginForm>>

handleEditProductResume ==
    /\ mounted
    /\ \E call \in BagToSet(inflight), r \in DashboardOutcomes("handleEditProduct") :
        /\ call.op = "dashboard"
        /\ call.handler = "handleEditProduct"
        /\ Settled(call)
        /\ requestSettled(r)
        /\ dashboard' =
             [dashboard EXCEPT
                !.products = IF okBranch(r) /\ CanRead(JSONparse(r.body))
                             THEN editedProducts(@, call.id, JSONparse(r.body))
                             ELSE @,
                !.isSubmitting = busyAfter(r)]
        /\ last' = [op |-> "dashboard-resume", handler |-> call.handler, id |-> call.id,
                     response |-> r]
    /\ UNCHANGED <<mounted, navigating, rendered, dispatched, loginForm>>

\* The user has confirmed the deletion; the handler raises no busy flag.
handleDeleteProduct ==
    /\ mounted
    /\ rendered.isAuthenticated
    /\ \E id \in ProductIds :
        /\ InFlight(DashboardCall("handleDeleteProduct", Str(id)))
        /\ last' = [op |-> "dashboard-call", handler |-> "handleDeleteProduct"]
    /\ UNCHANGED <<token, user, isAuthenticated, storage, mounted, navigating, written, rendered,
                   view>>

handleDeleteProductResume ==
    /\ mounted
    /\ \E call \in BagToSet(inflight), r \in DashboardOutcomes("handleDeleteProduct") :
        /\ call.op = "dashboard"
        /\ call.handler = "handleDeleteProduct"
        /\ Settled(call)
        /\ requestSettled(r)
        /\ dashboard' =
             [dashboard EXCEPT
                !.products = IF okBranch(r) THEN deletedProducts(@, call.id) ELSE @]
        /\ last' = [op |-> "dashboard-resume", handler |-> call.handler, id |-> call.id,
                     response |-> r]
    /\ UNCHANGED <<mounted, navigating, rendered, dispatched, loginForm>>

\* What the login endpoint answers to the form: a transport failure, a
\* rejection of the credentials, or a token with a user record.
SubmitOutcomes ==
    { TransportFailure,
      Response(401, JsonText(Obj("error" :> Str("Invalid credentials")))),
      Response(200, JsonText(Obj(("token" :> Str("t1")) @@ ("user" :> Obj(UserInfo({"_id", "email"})))))) }

\* setIsSubmitting(true) and the call of login up to its fetch.
handleSubmit ==
    /\ mounted
    /\ loginForm' = [loginForm EXCEPT !.isSubmitting = TRUE]
    /\ InFlight(LoginCall)
    /\ last' = [op |-> "submit-call"]
    /\ UNCHANGED <<token, user, isAuthenticated, storage, mounted, navigating, written, rendered,
                   dispatched, dashboard>>

\* login resumes and returns; finally { setIsSubmitting(false) }.
handleSubmitResume ==
    /\ mounted
    /\ Settled(LoginCall)
    /\ \E r \in SubmitOutcomes :
        /\ loginSettled(r)
        /\ last' = [op |-> "submit-resume", response |-> r,
                     completion |-> Returned(loginSucceeds(r))]
    /\ loginForm' = [loginForm EXCEPT !.isSubmitting = FALSE]
    /\ UNCHANGED <<mounted, navigating, rendered, dispatched, dashboard>>

InitView == \E restored \in BOOLEAN : AtRest(restored)

NextView ==
    \/ handleSubmit
    \/ handleSubmitResume
    \/ fetchProducts
    \/ fetchProductsResume
    \/ handleCreateProduct
    \/ handleCreateProductResume
    \/ handleEditProduct
    \/ handleEditProductResume
    \/ handleDeleteProduct
    \/ handleDeleteProductResume
    \/ handleLogout
    \/ render

SpecView == InitView /\ [][NextView]_vars

(***************************************************************************)
(* Properties.                                                             *)
(***************************************************************************)
KeysAbsent == "jwt_token" \notin DOMAIN storage /\ "user" \notin DOMAIN storage

KeysPresent == "jwt_token" \in DOMAIN storage /\ "user" \in DOMAIN storage

Cleared == token = Null /\ user = Null /\ ~isAuthenticated /\ KeysAbsent

Got401(l) == l.response.outcome = "response" /\ l.response.status = 401

\* C1: once the restoration effect has run, isAuthenticated is true exactly
\* when the token is a non-empty string and the user is non-null, and the
\* token and the user are held together or not at all.
C1_SessionInvariant ==
    mounted =>
        /\ isAuthenticated <=> (Truthy(token) /\ user # Null)
        /\ (token = Null) <=> (user = Null)

\* C2: right after makeAuthenticatedRequest has resumed on a 401 response, the
\* token and the user are null, isAuthenticated is false and both keys are
\* absent from localStorage.
C2_UnauthorizedLogsOut ==
    (last.op = "request-resume" /\ Got401(last)) => Cleared

C2_Witness ==
    /\ last.op = "request-resume"
    /\ Got401(last)
    /\ last.was
    /\ "Authorization" \in DOMAIN last.call.headers

\* C3: a step of makeAuthenticatedRequest (of the AuthProvider or of the
\* Redux helper), its call or its resumption on a response whose status is not
\* 401, leaves the token, the user, isAuthenticated and localStorage unchanged.
C3_OnlyOn401 ==
    [][ ( \/ last'.op \in {"request-call", "redux-call"}
          \/ /\ last'.op \in {"request-resume", "redux-resume"}
             /\ last'.response.outcome = "response"
             /\ last'.response.status # 401 )
        => UNCHANGED session ]_vars

C3_Witness ==
    /\ last.op = "request-resume"
    /\ last.response.outcome = "response"
    /\ last.response.status = 400
    /\ isAuthenticated
    /\ KeysPresent

NonEmptyString(v) == v.t = "string" /\ v # Str("")

TokenNames == <<"token", "accessToken", "jwt">>

IdentityProps == {"_id", "id", "fullName", "name", "email"}

\* The body carries a token: a non-empty string under one of the accepted names.
BodyHasToken(data) == \E i \in 1..3 : NonEmptyString(Get(data, TokenNames[i]))

\* The body carries a user identity: a record under user or data, or
\* identity properties at the top level.
BodyHasUser(data) ==
    \/ Get(data, "user").t = "object"
    \/ Get(data, "data").t = "object"
    \/ \E k \in IdentityProps : Get(data, k) # Undefined

\* The 2xx answers whose body is a JSON object.
OkObject(l) ==
    /\ l.response.outcome = "response"
    /\ ok(l.response.status)
    /\ JSONparses(l.response.body)
    /\ JSONparse(l.response.body).t = "object"

\* C4: a resumption of login on a 2xx answer whose body lacks a token or
\* lacks a user identity returns false and leaves the token, the user,
\* isAuthenticated and localStorage unchanged.
C4_MissingTokenOrUser ==
    [][ ( /\ last'.op = "login-resume"
          /\ OkObject(last')
          /\ \/ ~BodyHasToken(JSONparse(last'.response.body))
             \/ ~BodyHasUser(JSONparse(last'.response.body)) )
        => /\ last'.completion = Returned(FALSE)
           /\ UNCHANGED session ]_vars

\* The failure paths of login: the fetch rejects, the status is not 2xx, or
\* the body is not JSON.
LoginFailure(l) ==
    \/ l.response.outcome = "rejected"
    \/ ~ok(l.response.status)
    \/ ~JSONparses(l.response.body)

\* C5: a resumption of login on a transport failure, a non-2xx status or an
\* unparsable body returns false (it does not raise) and leaves the token,
\* the user, isAuthenticated and localStorage unchanged; so does the call
\* of login up to its fetch.
C5_LoginFailureIsFalse ==
    [][ /\ last'.op = "login-call" => UNCHANGED session
        /\ (last'.op = "login-resume" /\ LoginFailure(last'))
             => /\ last'.completion = Returned(FALSE)
                /\ UNCHANGED session ]_vars

C5_Witness ==
    /\ last.op = "login-resume"
    /\ last.response.outcome = "response"
    /\ last.response.status = 400
    /\ JSONparses(last.response.body)
    /\ BodyHasToken(JSONparse(last.response.body))
    /\ last.completion = Returned(FALSE)
    /\ isAuthenticated
    /\ KeysPresent

\* The token of the body: the first accepted name that holds a non-empty string.
BodyToken(data) ==
    IF NonEmptyString(Get(data, "token")) THEN Get(data, "token")
    ELSE IF NonEmptyString(Get(data, "accessToken")) THEN Get(data, "accessToken")
    ELSE Get(data, "jwt")

\* The user record of the body: under user, else under data, else the body.
BodyUser(data) ==
    IF Get(data, "user").t = "object" THEN Get(data, "user")
    ELSE IF Get(data, "data").t = "object" THEN Get(data, "data")
    ELSE data

\* C6: right after login has resumed on a 2xx answer carrying a token t and
\* a user identity u, login has returned true, the session holds t and the
\* normalized u with isAuthenticated true, and localStorage holds t under
\* jwt_token and the serialized normalized user under user.
C6_LoginSuccess ==
    ( /\ last.op = "login-resume"
      /\ OkObject(last)
      /\ BodyHasToken(JSONparse(last.response.body))
      /\ BodyHasUser(JSONparse(last.response.body)) )
    => LET data == JSONparse(last.response.body)
       IN  /\ last.completion = Returned(TRUE)
           /\ token = BodyToken(data)
           /\ user = loginUserData(BodyUser(data))
           /\ Get(user, "email") = Get(BodyUser(data), "email")
           /\ isAuthenticated
           /\ KeysPresent
           /\ storage["jwt_token"] = BodyToken(data)
           /\ storage["user"] = JSONstringify(loginUserData(BodyUser(data)))

C6_Witness ==
    /\ last.op = "login-resume"
    /\ OkObject(last)
    /\ JSONparse(last.response.body) =
          Obj(("token" :> Str("t1")) @@ ("user" :> Obj(UserInfo({"_id", "email"}))))
    /\ last.completion = Returned(TRUE)
    /\ token = Str("t1")

\* C7: while the pair written by a successful login with token t is in force
\* (no logout, 401 or other login since), every call of
\* makeAuthenticatedRequest sends Authorization: Bearer t.
C7_BearerAfterLogin ==
    (last.op = "request-call" /\ written.by = "login")
    => /\ "Authorization" \in DOMAIN last.call.headers
       /\ last.call.headers["Authorization"] = Bearer(written.token)

C7_Witness ==
    /\ last.op = "request-call"
    /\ written.by = "login"
    /\ written.token = Str("t1")
    /\ last.call.headers["Authorization"] = "Bearer t1"
    /\ "X-Custom" \in DOMAIN last.call.headers

UserProps == {"_id", "name", "email", "fullName"}

\* C8: when the restoration effect runs on a localStorage written by a
\* successful login, isAuthenticated is true afterwards, the token is the one
\* login wrote and the user has, property by property, the values of the
\* user record login held.
C8_RestoreRoundTrip ==
    (last.op = "restore" /\ written.by = "login")
    => /\ isAuthenticated
       /\ token = written.token
       /\ token = storage["jwt_token"]
       /\ user.t = "object"
       /\ \A k \in UserProps : Get(user, k) = Get(written.user, k)

C8_Witness ==
    /\ last.op = "restore"
    /\ written.by = "login"
    /\ isAuthenticated
    /\ Get(written.user, "fullName") = Undefined
    /\ Get(user, "_id") = Str("u1")

\* C9: a restoration effect that finds both keys and cannot parse the user
\* text leaves the token and the user null, isAuthenticated false and both
\* keys removed.
C9_ParseFailureClears ==
    [][ ( /\ ~mounted
          /\ mounted'
          /\ Truthy(getItem("jwt_token"))
          /\ Truthy(getItem("user"))
          /\ ~JSONparses(getItem("user")) )
        => /\ token' = Null
           /\ user' = Null
           /\ ~isAuthenticated'
           /\ "jwt_token" \notin DOMAIN storage'
           /\ "user" \notin DOMAIN storage' ]_vars

\* C10: right after logout the token and the user are null, isAuthenticated
\* is false and both keys are absent from localStorage.
C10_LogoutClears == last.op = "logout" => Cleared

C10_Witness == last.op = "logout" /\ last.was /\ Cleared /\ inflight # EmptyBag

\* C11: a logout that directly follows a logout leaves the token, the user,
\* isAuthenticated and localStorage as the first one left them.
C11_LogoutIdempotent ==
    [][ (last.op = "logout" /\ last'.op = "logout") => UNCHANGED session ]_vars

C11_Witness == last.op = "logout" /\ last.again /\ Cleared

\* What the claim expects makeAuthenticatedRequest to send, given the token
\* the helper reads and the caller's headers: the default Content-Type, the
\* Authorization of the token when one is held, and over them every header of
\* the caller.
ExpectedHeaders(tok, options) ==
    [ k \in {"Content-Type"} \cup (IF Truthy(tok) THEN {"Authorization"} ELSE {}) \cup DOMAIN options |->
        IF k \in DOMAIN options THEN options[k]
        ELSE IF k = "Content-Type" THEN "application/json"
        ELSE Bearer(tok) ]

\* C12: the headers sent by makeAuthenticatedRequest (of the AuthProvider and
\* of the Redux helper) are the default Content-Type, the Authorization of the
\* held token, and every caller-supplied header, the caller's value winning
\* for every name it supplies.
C12_HeaderMerge ==
    /\ last.op = "request-call"
         => last.call.headers = ExpectedHeaders(last.call.closure.token, last.options)
    /\ last.op = "redux-call"
         => last.call.headers = ExpectedHeaders(getItem("jwt_token"), last.options)

\* An absolute URL: it begins with http:// or https://.
IsAbsolute(url) ==
    \/ startsWith(url, Http \o <<":", "/", "/">>)
    \/ startsWith(url, Http \o <<"s", ":", "/", "/">>)

\* p or "/" + p for a non-empty p without a leading slash.
PlainPath(url) ==
    LET p == IF startsWith(url, Slash) THEN Tail(url) ELSE url
    IN  Len(p) > 0 /\ ~startsWith(p, Slash)

\* C13: a relative path p without a leading slash, given as p or as "/" + p,
\* is sent to the base URL followed by "/" and p.
C13_LeadingSlashIrrelevant ==
    (last.op = "url-resolved" /\ ~startsWith(last.url, Http) /\ PlainPath(last.url))
    => last.fullUrl =
         API_BASE_URL \o Slash \o (IF startsWith(last.url, Slash) THEN Tail(last.url) ELSE last.url)

\* C14: a path is passed through unchanged exactly when it is an absolute
\* URL; every other path, one that merely begins with "http" included, is
\* resolved against the base URL.
C14_AbsoluteOnlyPassThrough ==
    last.op = "url-resolved"
    => IF IsAbsolute(last.url)
       THEN last.fullUrl = last.url
       ELSE last.fullUrl # last.url /\ startsWith(last.fullUrl, API_BASE_URL)

Paired(st) == ("jwt_token" \in DOMAIN st) <=> ("user" \in DOMAIN st)

\* C15: a step taken from a localStorage in which the two keys are both
\* present or both absent leaves them both present or both absent.
C15_KeysPaired == [][ Paired(storage) => Paired(storage') ]_vars

C15_Witness ==
    /\ last.op = "redux-resume"
    /\ Got401(last)
    /\ KeysAbsent
    /\ isAuthenticated

Populated == Truthy(token) /\ user # Null

\* The session is populated exactly when both keys are present, and then the
\* persisted token and user are the ones held in memory.
InStep ==
    /\ Populated <=> KeysPresent
    /\ Populated =>
         /\ storage["jwt_token"] = token
         /\ JSONparses(storage["user"])
         /\ \A k \in {"_id", "name", "email", "fullName"} :
               Get(JSONparse(storage["user"]), k) = Get(user, k)

\* C16: after the restoration effect has run, memory and storage stay in
\* step: no step of the running page (a 401 handled by the Redux helper
\* included) leads from a point where they are in step to one where they
\* are not.
C16_MemoryMatchesStorage ==
    [][ (mounted /\ mounted' /\ InStep) => InStep' ]_vars

\* C17: when makeAuthenticatedRequest resumes on a 401, the value handed to
\* the caller is that response, the session is cleared, and what the caller
\* observes through its closure (isAuthenticated, the token its
\* makeAuthenticatedRequest would attach) is cleared as well.
C17_ClearedWhenCallerResumes ==
    (last.op = "request-resume" /\ Got401(last))
    => /\ last.completion = Returned(last.response)
       /\ Cleared
       /\ ~last.call.closure.isAuthenticated
       /\ ~Truthy(last.call.closure.token)

\* C18: a resumption of makeAuthenticatedRequest on a rejected fetch raises to
\* the caller and leaves the token, the user, isAuthenticated and
\* localStorage unchanged.
C18_TransportFailureRaised ==
    [][ (last'.op = "request-resume" /\ last'.response.outcome = "rejected")
        => /\ last'.completion = Raised
           /\ UNCHANGED session ]_vars

C18_Witness ==
    /\ last.op = "request-resume"
    /\ last.response.outcome = "rejected"
    /\ last.completion = Raised
    /\ isAuthenticated
    /\ KeysPresent

\* C19: a call of makeAuthenticatedRequest attaches the token the session
\* holds at that moment: Authorization: Bearer <token> when a token is held,
\* and no token of an earlier render.
C19_TokenAtDispatch ==
    last.op = "request-call" => last.call.closure.token = token

\* C20: when a resumption on a 401 directly follows another resumption on a
\* 401, the second request is one that was in flight (it was sent with the
\* headers of its call) and its logout changes nothing.
C20_Second401IsNoOp ==
    [][ ( /\ last.op = "request-resume" /\ Got401(last)
          /\ last'.op = "request-resume" /\ Got401(last') )
        => /\ BagIn(last'.call, inflight)
           /\ UNCHANGED session ]_vars

C20_Witness ==
    /\ last.op = "request-resume"
    /\ Got401(last)
    /\ last.again
    /\ "Authorization" \in DOMAIN last.call.headers
    /\ Cleared

\* C21: while the page lives, isAuthenticated turns from false to true only in
\* a login that returns true or in a restoration that parsed the saved pair,
\* and from true to false only in a logout or in a resumption of
\* makeAuthenticatedRequest on a 401.
C21_SessionStateMachine ==
    [][ /\ (~isAuthenticated /\ isAuthenticated')
             => \/ (last'.op = "login-resume" /\ last'.completion = Returned(TRUE))
                \/ (last'.op = "restore" /\ last'.path = "restored")
        /\ (isAuthenticated /\ ~isAuthenticated' /\ mounted')
             => \/ last'.op = "logout"
                \/ (last'.op = "request-resume" /\ Got401(last')) ]_vars

C21_Witness ==
    /\ last.op = "restore"
    /\ last.path = "restored"
    /\ isAuthenticated
    /\ written.by = "nobody"

\* C22: when any call to the remote API (a request through the AuthProvider,
\* a login, a request through the Redux helper) resumes on a 401 while a
\* session is held, the session is cleared.
C22_Any401Clears ==
    [][ ( /\ isAuthenticated
          /\ user # Null
          /\ last'.op \in {"request-resume", "login-resume", "redux-resume"}
          /\ Got401(last') )
        => Cleared' ]_vars

Present(v) == v \notin {Undefined, Null, Str("")}

\* The first present value of a list of candidates, undefined when none is.
FirstPresent(candidates) ==
    IF \E i \in DOMAIN candidates : Present(candidates[i])
    THEN candidates[CHOOSE i \in DOMAIN candidates :
                       /\ Present(candidates[i])
                       /\ \A j \in DOMAIN candidates : Present(candidates[j]) => i <= j]
    ELSE Undefined

\* C23: right after a login that returned true, the token is the first
\* present of token, accessToken, jwt; the user record is taken from the first
\* present of user, data, the body itself; the held and the persisted user
\* have as _id the record's _id, else its id, as name its fullName, else its
\* name, else its email, and as email its email.
C23_LoginNormalization ==
    (last.op = "login-resume" /\ last.completion = Returned(TRUE))
    => LET data == JSONparse(last.response.body)
           record == FirstPresent(<<Get(data, "user"), Get(data, "data"), data>>)
           saved == JSONparse(storage["user"])
       IN  /\ token = FirstPresent(<<Get(data, "token"), Get(data, "accessToken"), Get(data, "jwt")>>)
           /\ storage["jwt_token"] = token
           /\ \A held \in {user, saved} :
                 /\ Get(held, "_id") = FirstPresent(<<Get(record, "_id"), Get(record, "id")>>)
                 /\ Get(held, "name") =
                       FirstPresent(<<Get(record, "fullName"), Get(record, "name"), Get(record, "email")>>)
                 /\ Get(held, "email") = Get(record, "email")

C23_Witness ==
    /\ last.op = "login-resume"
    /\ last.completion = Returned(TRUE)
    /\ token = Str("t2")
    /\ Get(JSONparse(last.response.body), "token") = Str("")
    /\ Get(JSONparse(last.response.body), "name") = Str("ann")
    /\ Get(user, "name") = Str("Ann Lee")
    /\ Get(user, "_id") = Str("u1")

\* C24: every call other than login goes through the one request primitive
\* of the session: a request of the Redux thunks is sent with the token the
\* session holds in memory, and a 401 on it clears the session.
C24_SingleRequestPrimitive ==
    /\ (last.op = "redux-call" /\ last.options = NoHeaders)
         => last.call.headers = ExpectedHeaders(token, NoHeaders)
    /\ (last.op = "redux-resume" /\ Got401(last)) => Cleared

\* C25: a call of makeAuthenticatedRequest made while isAuthenticated is false
\* sends no Authorization header unless the caller supplied one.
C25_NoBearerWhenUnauthenticated ==
    (last.op = "request-call" /\ ~isAuthenticated /\ "Authorization" \notin DOMAIN last.options)
    => "Authorization" \notin DOMAIN last.call.headers

\* C26: a login that is in flight when logout completes does not
\* re-establish the session: when its resumption directly follows the
\* logout, isAuthenticated stays false and both keys stay absent.
C26_LogoutWinsOverPendingLogin ==
    [][ (last.op = "logout" /\ BagIn(LoginCall, inflight) /\ last'.op = "login-resume")
        => (~isAuthenticated' /\ KeysAbsent') ]_vars

\* C27: the token and the user that are held, and the two persisted keys,
\* come from one source: while the pair written by a login is in force they
\* are the token and the user of that one login response, and a restoration
\* takes both from the same stored pair.
C27_TokenAndUserFromOneSource ==
    /\ (written.by = "login" /\ Populated)
         => /\ token = written.token
            /\ \A k \in UserProps : Get(user, k) = Get(written.user, k)
    /\ (written.by = "login" /\ KeysPresent)
         => /\ storage["jwt_token"] = written.token
            /\ storage["user"] = JSONstringify(written.user)
    /\ (last.op = "restore" /\ last.path = "restored")
         => /\ token = storage["jwt_token"]
            /\ user = JSONparse(storage["user"])

C27_Witness ==
    /\ last.op = "login-resume"
    /\ last.completion = Returned(TRUE)
    /\ BagIn(LoginCall, inflight)
    /\ token = Str("t2")
    /\ storage["jwt_token"] = Str("t2")
    /\ Get(user, "_id") = Str("u2")

\* C28: each thunk dispatches its REQUEST action when it is called and, when
\* its request has settled, exactly one more action: SUCCESS when the
\* response is ok and its body parses, FAILURE otherwise (a non-ok response,
\* an unparsable body, a transport failure).
C28_RequestThenOneOutcome ==
    [][ /\ last'.op = "thunk-call"
             => dispatched' = Append(dispatched, ActionType(last'.thunk, "REQUEST"))
        /\ last'.op = "thunk-resume"
             => dispatched' =
                  Append(dispatched,
                         ActionType(last'.thunk,
                                    IF /\ last'.response.outcome = "response"
                                       /\ ok(last'.response.status)
                                       /\ JSONparses(last'.response.body)
                                    THEN "SUCCESS" ELSE "FAILURE")) ]_vars

\* The answers the claim counts as a success: a 2xx response whose body is a
\* JSON object.
Successful(r) ==
    /\ r.outcome = "response"
    /\ ok(r.status)
    /\ JSONparses(r.body)
    /\ JSONparse(r.body).t = "object"

\* The products of a list without those of the given id, in their order.
RECURSIVE Without(_, _)
Without(list, id) ==
    IF list = <<>> THEN <<>>
    ELSE IF Get(Head(list), "id") = id THEN Without(Tail(list), id)
    ELSE <<Head(list)>> \o Without(Tail(list), id)

\* C29: the product list changes only when a handler resumes on an ok
\* response; a successful create appends the returned product, a successful
\* update puts the returned product in the place of the product with the
\* edited id and leaves the others, a successful delete removes the product
\* with that id and leaves the others; a non-ok response or a transport
\* failure leaves the list unchanged.
C29_ProductListFrame ==
    [][ LET before == dashboard.products
            after == dashboard'.products
            l == last'
        IN  /\ after # before
                 => /\ l.op = "dashboard-resume"
                    /\ l.response.outcome = "response"
                    /\ ok(l.response.status)
            /\ (l.op = "dashboard-resume" /\ Successful(l.response))
                 => LET returned == Get(JSONparse(l.response.body), "product")
                    IN  /\ l.handler = "handleCreateProduct" => after = before \o <<returned>>
                        /\ l.handler = "handleEditProduct"
                             => /\ Len(after) = Len(before)
                                /\ \A i \in 1..Len(before) :
                                      after[i] = IF Get(before[i], "id") = l.id
                                                 THEN returned ELSE before[i]
                        /\ l.handler = "handleDeleteProduct" => after = Without(before, l.id) ]_vars

C29_Witness ==
    /\ last.op = "dashboard-resume"
    /\ last.handler = "handleEditProduct"
    /\ Successful(last.response)
    /\ last.id = Str("p1")
    /\ dashboard.products = <<Product("p2", "a"), Product("p1", "b")>>
    /\ inflight # EmptyBag

\* A handler of the dashboard is suspended on its request.
Pending(handlers) ==
    \E call \in BagToSet(inflight) : call.op = "dashboard" /\ call.handler \in handlers

\* C30: every busy flag that is raised is lowered when the login or the
\* request of its handler settles, whatever the outcome: right after the
\* resumption the flag is false, and a flag is raised only while a login or
\* a request of a handler that raises it is still to settle.
C30_BusyFlagsLowered ==
    /\ last.op = "submit-resume" => ~loginForm.isSubmitting
    /\ (last.op = "dashboard-resume" /\ last.handler = "fetchProducts") => ~dashboard.loading
    /\ (last.op = "dashboard-resume" /\ last.handler \in {"handleCreateProduct", "handleEditProduct"})
         => ~dashboard.isSubmitting
    /\ loginForm.isSubmitting => BagIn(LoginCall, inflight)
    /\ dashboard.loading => Pending({"fetchProducts"})
    /\ dashboard.isSubmitting => Pending({"handleCreateProduct", "handleEditProduct"})

C30_Witness ==
    /\ last.op = "dashboard-resume"
    /\ last.handler = "handleCreateProduct"
    /\ last.response.outcome = "rejected"
    /\ ~dashboard.isSubmitting
    /\ inflight = EmptyBag
====
